---- MODULE Spec2Model ----
(***************************************************************************)
(* Thompson construction (NFA fragment algebra), epsilon-closure           *)
(* computation and subset construction of src/src/nfa.cpp.                 *)
(*                                                                         *)
(* State indices are 0-based as in the source; the state vector is a TLA+  *)
(* sequence, so state i of the source is vec[i + 1].                       *)
(***************************************************************************)
EXTENDS Integers, Sequences, FiniteSets, TLC

VARIABLES
    vec,              \* NFA::vec, the append-only state arena
    nfa,              \* NFA::nfa, the tracked fragment [start, end]
    ret,              \* the fragment returned by the last algebra call
    lastop,           \* name of the last algebra call ("none" after NFA())
    nops,             \* number of algebra calls made so far
    frags,            \* fragment references the caller holds (with denoted language)
    spent,            \* fragment references already consumed by a combinator
    loose,            \* number of algebra calls made since a fragment was first reused
    pc,               \* position: "build", "range", "closure", "closed", "subset",
                      \*   "done", "thrown", "undefined", "crashed"
    range_s, range_e, \* arguments of the running NFA::range call
    range_c,          \* loop variable c of NFA::range (a char)
    range_ns,         \* local ns of NFA::range
    list,             \* argument of the last NFA::one_of call
    base,             \* vec.size() when the running/last range or one_of call began
    ci,               \* loop variable i of calculate_epsilon_closures
    stack,            \* the std::stack of calculate_epsilon_closures (top is last)
    flag,             \* the flag vector of calculate_epsilon_closures
    ecs,              \* epsilon_closures
    dfa_states,       \* dfa_states of nfa2dfa
    dfa_ref_records,  \* dfa_ref_records of nfa2dfa
    dsi,              \* loop variable dsi of nfa2dfa
    ch_closures,      \* ch_closures of the running dsi iteration (entries not yet visited)
    dfa               \* the returned DFA

vars == <<vec, nfa, ret, lastop, nops, frags, spent, loose, pc, range_s, range_e, range_c,
          range_ns, list, base, ci, stack, flag, ecs, dfa_states, dfa_ref_records, dsi,
          ch_closures, dfa>>

buildVars == <<vec, nfa, ret, lastop, nops, frags, spent, loose, range_s, range_e, range_c,
              range_ns, list, base>>
closureVars == <<ci, stack, flag, ecs>>
subsetVars == <<dfa_states, dfa_ref_records, dsi, ch_closures, dfa>>

----------------------------------------------------------------------------
(* Bounds of the model *)

\* largest number of algebra calls made before nfa2dfa under Spec
MaxOps == 4
\* largest number of those calls made from the first reuse of a fragment on
MaxLoose == 1
\* longest input string tried against an automaton
MaxLen == 3
\* largest number of states of an arbitrary state sequence (SpecEcs)
MaxV == 2
\* largest hi - lo of a range call (SpecRange)
MaxSpan == 2

----------------------------------------------------------------------------
(* Program constants *)

RULE_UNDEFINED == -1
RULE_EPSILON == -2
REF_UNDEFINED == -1
\* width of the symbol type char
CharBits == 8

CharMin == -(2 ^ (CharBits - 1))
CharMax == 2 ^ (CharBits - 1) - 1
Char == CharMin .. CharMax

\* conversion of an int back to char (two's complement wrap)
ToChar(x) == ((x - CharMin) % (2 ^ CharBits)) + CharMin

\* 'a', 'b': the alphabet the algebra is driven with under Spec
Sigma == {97, 98}

----------------------------------------------------------------------------
(* Data *)

\* NFAState::NFAState()
NFAState == [rule |-> RULE_UNDEFINED, first |-> REF_UNDEFINED, second |-> REF_UNDEFINED]

\* NFASubsetRef::NFASubsetRef()
NFASubsetRef == [start |-> REF_UNDEFINED, end |-> REF_UNDEFINED]

Ref(s, e) == [start |-> s, end |-> e]

\* vec[i] of the source
At(v, i) == v[i + 1]

Indices(v) == 0 .. (Len(v) - 1)

----------------------------------------------------------------------------
(* The fragment algebra: each operator returns the new vec and nfa *)

ch(v, c) ==
    LET s == Len(v)
        e == s + 1
        v1 == v \o <<NFAState, NFAState>>
    IN  [vec |-> [v1 EXCEPT ![s + 1].rule = c, ![s + 1].first = e],
         nfa |-> Ref(s, e)]

link(v, lv, rv) ==
    [vec |-> [v EXCEPT ![lv.end + 1].rule = RULE_EPSILON,
                       ![lv.end + 1].first = rv.start],
     nfa |-> Ref(lv.start, rv.end)]

select(v, lv, rv) ==
    LET s == Len(v)
        e == s + 1
        v1 == v \o <<NFAState, NFAState>>
        v2 == [v1 EXCEPT ![s + 1].rule = RULE_EPSILON,
                         ![s + 1].first = lv.start,
                         ![s + 1].second = rv.start]
        v3 == [v2 EXCEPT ![lv.end + 1].rule = RULE_EPSILON,
                         ![lv.end + 1].first = e]
        v4 == [v3 EXCEPT ![rv.end + 1].rule = RULE_EPSILON,
                         ![rv.end + 1].first = e]
    IN  [vec |-> v4, nfa |-> Ref(s, e)]

\* star without the zero-iteration skip edge
star_no_skip(v, f) ==
    LET s == Len(v)
        e == s + 1
        v1 == v \o <<NFAState, NFAState>>
        v2 == [v1 EXCEPT ![s + 1].rule = RULE_EPSILON,
                         ![s + 1].first = f.start]
        v3 == [v2 EXCEPT ![f.end + 1].rule = RULE_EPSILON,
                         ![f.end + 1].first = s]
    IN  [vec |-> v3, nfa |-> Ref(s, e)]

star(v, f) ==
    LET s == Len(v)
        e == s + 1
        v1 == v \o <<NFAState, NFAState>>
        v2 == [v1 EXCEPT ![s + 1].rule = RULE_EPSILON,
                         ![s + 1].first = f.start,
                         ![s + 1].second = e]
        v3 == [v2 EXCEPT ![f.end + 1].rule = RULE_EPSILON,
                         ![f.end + 1].first = s]
    IN  [vec |-> v3, nfa |-> Ref(s, e)]

question(v, f) ==
    LET s == Len(v)
        v1 == v \o <<NFAState>>
    IN  [vec |-> [v1 EXCEPT ![s + 1].rule = RULE_EPSILON,
                            ![s + 1].first = f.start,
                            ![s + 1].second = f.end],
         nfa |-> Ref(s, f.end)]


\* NFA::one_of: ch of the first member, then select(ns, ch(member)) for the rest.
\* ret is the returned fragment, the sentinel NFASubsetRef() for an empty list,
\* in which case neither vec nor the tracked nfa is touched.
RECURSIVE OneOfLoop(_, _, _)
OneOfLoop(r, l, k) ==
    IF k > Len(l) THEN r
    ELSE LET a == ch(r.vec, l[k])
             b == select(a.vec, r.nfa, a.nfa)
         IN  OneOfLoop(b, l, k + 1)

one_of(v, n, l) ==
    IF l = <<>> THEN [vec |-> v, nfa |-> n, ret |-> NFASubsetRef]
    ELSE LET r == OneOfLoop(ch(v, l[1]), l, 2)
         IN  [vec |-> r.vec, nfa |-> r.nfa, ret |-> r.nfa]

----------------------------------------------------------------------------
(* Languages over Sigma, cut at length MaxLen: what an expression denotes *)

Strs == UNION {[1 .. k -> Sigma] : k \in 0 .. MaxLen}

LCat(A, B) == {p[1] \o p[2] : p \in {q \in A \X B : Len(q[1]) + Len(q[2]) <= MaxLen}}

RECURSIVE LStarN(_, _)
LStarN(A, n) == IF n = 0 THEN {<<>>} ELSE {<<>>} \cup LCat(A, LStarN(A, n - 1))

LStar(A) == LStarN(A, MaxLen)

FragRef(f) == Ref(f.start, f.end)

\* every fragment was consumed by at most one combinator so far
wf == loose = 0

\* a fragment the caller may pass on without breaking single use
Fresh(f) == wf /\ FragRef(f) \notin spent

Held(r, ok, lang) == [start |-> r.start, end |-> r.end, lang |-> IF ok THEN lang ELSE {}]

\* the caller's fragments after a call; denotations are kept only while every
\* fragment was consumed at most once
Hold(fs, r, ok, lang) ==
    IF ok THEN fs \cup {Held(r, TRUE, lang)}
    ELSE {Held(FragRef(f), FALSE, {}) : f \in fs} \cup {Held(r, FALSE, {})}

----------------------------------------------------------------------------
(* Algebra calls *)

Ch(c) ==
    /\ pc = "build"
    /\ LET r == ch(vec, c)
       IN  /\ vec' = r.vec
           /\ nfa' = r.nfa
           /\ ret' = r.nfa
           /\ frags' = Hold(frags, r.nfa, wf, {<<c>>})
    /\ lastop' = "ch"
    /\ nops' = nops + 1
    /\ loose' = IF wf THEN 0 ELSE loose + 1
    /\ UNCHANGED <<spent, pc, range_s, range_e, range_c, range_ns, list, base>>
    /\ UNCHANGED <<closureVars, subsetVars>>

Link(lv, rv) ==
    /\ pc = "build"
    /\ LET r == link(vec, lv, rv)
           ok == Fresh(lv) /\ Fresh(rv) /\ FragRef(lv) # FragRef(rv)
       IN  /\ vec' = r.vec
           /\ nfa' = r.nfa
           /\ ret' = r.nfa
           /\ frags' = Hold(frags, r.nfa, ok, LCat(lv.lang, rv.lang))
           /\ loose' = IF ok THEN 0 ELSE loose + 1
    /\ spent' = IF loose' = 0 THEN spent \cup {FragRef(lv), FragRef(rv)} ELSE {}
    /\ lastop' = "link"
    /\ nops' = nops + 1
    /\ UNCHANGED <<pc, range_s, range_e, range_c, range_ns, list, base>>
    /\ UNCHANGED <<closureVars, subsetVars>>

Select(lv, rv) ==
    /\ pc = "build"
    /\ LET r == select(vec, lv, rv)
           ok == Fresh(lv) /\ Fresh(rv) /\ FragRef(lv) # FragRef(rv)
       IN  /\ vec' = r.vec
           /\ nfa' = r.nfa
           /\ ret' = r.nfa
           /\ frags' = Hold(frags, r.nfa, ok, lv.lang \cup rv.lang)
           /\ loose' = IF ok THEN 0 ELSE loose + 1
    /\ spent' = IF loose' = 0 THEN spent \cup {FragRef(lv), FragRef(rv)} ELSE {}
    /\ lastop' = "select"
    /\ nops' = nops + 1
    /\ UNCHANGED <<pc, range_s, range_e, range_c, range_ns, list, base>>
    /\ UNCHANGED <<closureVars, subsetVars>>

Star(f) ==
    /\ pc = "build"
    /\ LET r == star(vec, f)
           ok == Fresh(f)
       IN  /\ vec' = r.vec
           /\ nfa' = r.nfa
           /\ ret' = r.nfa
           /\ frags' = Hold(frags, r.nfa, ok, LStar(f.lang))
           /\ loose' = IF ok THEN 0 ELSE loose + 1
    /\ spent' = IF loose' = 0 THEN spent \cup {FragRef(f)} ELSE {}
    /\ lastop' = "star"
    /\ nops' = nops + 1
    /\ UNCHANGED <<pc, range_s, range_e, range_c, range_ns, list, base>>
    /\ UNCHANGED <<closureVars, subsetVars>>

Question(f) ==
    /\ pc = "build"
    /\ LET r == question(vec, f)
           ok == Fresh(f)
       IN  /\ vec' = r.vec
           /\ nfa' = r.nfa
           /\ ret' = r.nfa
           /\ frags' = Hold(frags, r.nfa, ok, f.lang \cup {<<>>})
           /\ loose' = IF ok THEN 0 ELSE loose + 1
    /\ spent' = IF loose' = 0 THEN spent \cup {FragRef(f)} ELSE {}
    /\ lastop' = "question"
    /\ nops' = nops + 1
    /\ UNCHANGED <<pc, range_s, range_e, range_c, range_ns, list, base>>
    /\ UNCHANGED <<closureVars, subsetVars>>

\* NFA::range up to the head of its for loop
RangeCall(s, e) ==
    /\ pc = "build"
    /\ range_s' = s
    /\ range_e' = e
    /\ base' = Len(vec)
    /\ lastop' = "range"
    /\ nops' = nops + 1
    /\ IF s > e
       THEN /\ ret' = NFASubsetRef
            /\ UNCHANGED <<vec, nfa, pc, range_c, range_ns>>
       ELSE LET r == ch(vec, s)
            IN  /\ vec' = r.vec
                /\ nfa' = r.nfa
                /\ IF s = e
                   THEN /\ ret' = r.nfa
                        /\ UNCHANGED <<pc, range_c, range_ns>>
                   ELSE /\ range_ns' = r.nfa
                        /\ range_c' = ToChar(s + 1)
                        /\ pc' = "range"
                        /\ UNCHANGED ret
    /\ UNCHANGED <<frags, spent, loose, list>>
    /\ UNCHANGED <<closureVars, subsetVars>>

\* one pass of the for loop: ns = select(ns, ch(c)); c++
RangeIter ==
    /\ pc = "range"
    /\ range_c <= range_e
    /\ LET a == ch(vec, range_c)
           b == select(a.vec, range_ns, a.nfa)
       IN  /\ vec' = b.vec
           /\ nfa' = b.nfa
           /\ range_ns' = b.nfa
    /\ range_c' = ToChar(range_c + 1)
    /\ UNCHANGED <<ret, lastop, nops, frags, spent, loose, pc, range_s, range_e, list, base>>
    /\ UNCHANGED <<closureVars, subsetVars>>

\* the for loop ends: return ns
RangeReturn ==
    /\ pc = "range"
    /\ ~(range_c <= range_e)
    /\ ret' = range_ns
    /\ pc' = "build"
    /\ UNCHANGED <<vec, nfa, lastop, nops, frags, spent, loose, range_s, range_e, range_c,
                   range_ns, list, base>>
    /\ UNCHANGED <<closureVars, subsetVars>>

OneOf(l) ==
    /\ pc = "build"
    /\ LET r == one_of(vec, nfa, l)
       IN  /\ vec' = r.vec
           /\ nfa' = r.nfa
           /\ ret' = r.ret
    /\ list' = l
    /\ base' = Len(vec)
    /\ lastop' = "one_of"
    /\ nops' = nops + 1
    /\ UNCHANGED <<frags, spent, loose, pc, range_s, range_e, range_c, range_ns>>
    /\ UNCHANGED <<closureVars, subsetVars>>

----------------------------------------------------------------------------
(* calculate_epsilon_closures *)

\* EpsTargets that forgets refs.second
EpsTargets_first_only(st) ==
    IF st.rule = RULE_EPSILON THEN <<st.first, REF_UNDEFINED>>
    ELSE <<REF_UNDEFINED, REF_UNDEFINED>>

\* the two epsilon targets looked at for the state on top of the stack
EpsTargets(st) ==
    IF st.rule = RULE_EPSILON THEN <<st.first, st.second>>
    ELSE <<REF_UNDEFINED, REF_UNDEFINED>>

\* GuardFires that lets the stack grow one entry further
GuardFires_late(nEcs, nStack) == nEcs + 1 < nStack

\* the stack-size check at the head of the while loop
GuardFires(nEcs, nStack) == nEcs < nStack

\* ecs[argi].insert(ecs[s].begin(), ecs[s].end())
Absorb(e, argi, s) == [e EXCEPT ![argi + 1] = e[argi + 1] \cup e[s + 1]]

\* nfa2dfa up to the call of calculate_epsilon_closures, and the head of that call
Nfa2DfaCall ==
    /\ pc = "build"
    /\ pc' = "closure"
    /\ ecs' = [i \in 1 .. Len(vec) |-> {}]
    /\ flag' = [i \in 1 .. Len(vec) |-> FALSE]
    /\ ci' = 0
    /\ stack' = <<>>
    /\ dfa_states' = <<>>
    /\ dfa_ref_records' = <<>>
    /\ UNCHANGED <<buildVars, dsi, ch_closures, dfa>>

\* for(i ...) { stack.push(i); ...
ClosureFor ==
    /\ pc = "closure"
    /\ stack = <<>>
    /\ ci < Len(vec)
    /\ stack' = <<ci>>
    /\ UNCHANGED <<buildVars, pc, ci, flag, ecs, subsetVars>>

\* throw "An epsilon infinite loop is detected."
ClosureThrow ==
    /\ pc = "closure"
    /\ stack # <<>>
    /\ GuardFires(Len(ecs), Len(stack))
    /\ pc' = "thrown"
    /\ UNCHANGED <<buildVars, closureVars, subsetVars>>

\* one pass of the while loop that does not throw; leaving the loop with an
\* empty stack also advances i
ClosureWhile ==
    /\ pc = "closure"
    /\ stack # <<>>
    /\ ~GuardFires(Len(ecs), Len(stack))
    /\ LET argi == stack[Len(stack)]
           t == EpsTargets(At(vec, argi))
           s1 == t[1]
           s2 == t[2]
           e1 == IF s1 # REF_UNDEFINED THEN Absorb(ecs, argi, s1) ELSE ecs
           e2 == IF s2 # REF_UNDEFINED THEN Absorb(e1, argi, s2) ELSE e1
           rest == SubSeq(stack, 1, Len(stack) - 1)
       IN  IF s1 # REF_UNDEFINED /\ ~flag[s1 + 1]
           THEN /\ stack' = Append(stack, s1)
                /\ UNCHANGED <<ci, flag, ecs>>
           ELSE IF s2 # REF_UNDEFINED /\ ~flag[s2 + 1]
           THEN /\ stack' = Append(stack, s2)
                /\ ecs' = e1
                /\ UNCHANGED <<ci, flag>>
           ELSE /\ flag' = [flag EXCEPT ![argi + 1] = TRUE]
                /\ ecs' = [e2 EXCEPT ![argi + 1] = e2[argi + 1] \cup {argi}]
                /\ stack' = rest
                /\ ci' = IF rest = <<>> THEN ci + 1 ELSE ci
    /\ UNCHANGED <<buildVars, pc, subsetVars>>

\* calculate_epsilon_closures returns
ClosureReturn ==
    /\ pc = "closure"
    /\ stack = <<>>
    /\ ci = Len(vec)
    /\ pc' = "closed"
    /\ UNCHANGED <<buildVars, closureVars, subsetVars>>

----------------------------------------------------------------------------
(* Subset construction *)

\* ChClosures that takes the target states without their closures
ChClosures_no_closure(v, e, members) ==
    LET live == {si \in members :
                    At(v, si).rule # RULE_EPSILON /\ At(v, si).rule # RULE_UNDEFINED}
    IN  [c \in {At(v, si).rule : si \in live} |->
            {At(v, si).first : si \in {sj \in live : At(v, sj).rule = c}}]

\* ch_closures of one DFA state: symbol |-> union of the closures of refs.first
ChClosures(v, e, members) ==
    LET live == {si \in members :
                    At(v, si).rule # RULE_EPSILON /\ At(v, si).rule # RULE_UNDEFINED}
    IN  [c \in {At(v, si).rule : si \in live} |->
            UNION {e[At(v, si).first + 1] : si \in {sj \in live : At(v, sj).rule = c}}]

\* FindState that never finds
FindState_never(states, s) == Len(states)

\* std::find over dfa_states: index of the first equal member set, or size()
FindState(states, s) ==
    IF \E i \in 1 .. Len(states) : states[i] = s
    THEN (CHOOSE i \in 1 .. Len(states) :
             states[i] = s /\ \A j \in 1 .. (i - 1) : states[j] # s) - 1
    ELSE Len(states)

\* IsEnd that looks for the start state
IsEnd_start(members, n) == n.start \in members

\* dfa[i].is_end
IsEnd(members, n) == n.end \in members

\* dfa[i].refs after every record was emplaced (an existing key is kept)
DfaRefs(records, i) ==
    {<<records[k].rule, records[k].to>> :
        k \in {m \in 1 .. Len(records) :
                  /\ records[m].from = i
                  /\ \A j \in 1 .. (m - 1) :
                        ~(records[j].from = i /\ records[j].rule = records[m].rule)}}

MinOf(S) == CHOOSE x \in S : \A y \in S : x <= y

\* dfa_states.push_back(epsilon_closures[nfa.start]) and the head of dsi = 0
SubsetBegin ==
    /\ pc = "closed"
    /\ nfa.start \in Indices(vec)
    /\ pc' = "subset"
    /\ dfa_states' = <<ecs[nfa.start + 1]>>
    /\ dsi' = 0
    /\ ch_closures' = ChClosures(vec, ecs, ecs[nfa.start + 1])
    /\ UNCHANGED <<buildVars, closureVars, dfa_ref_records, dfa>>

\* epsilon_closures[nfa.start] with nfa.start out of range is undefined
\* behaviour: the build may fault, or go on with whatever it read
SubsetBeginUndefined ==
    /\ pc = "closed"
    /\ nfa.start \notin Indices(vec)
    /\ \/ /\ pc' = "crashed"
          /\ dfa' = <<>>
       \/ /\ pc' = "undefined"
          /\ \E acc \in BOOLEAN : dfa' = <<[is_end |-> acc, refs |-> {}]>>
    /\ UNCHANGED <<buildVars, closureVars, dfa_states, dfa_ref_records, dsi, ch_closures>>

\* one visit of the for_each over ch_closures (a std::map: ascending symbols)
SubsetEach ==
    /\ pc = "subset"
    /\ DOMAIN ch_closures # {}
    /\ LET rule == MinOf(DOMAIN ch_closures)
           to == FindState(dfa_states, ch_closures[rule])
       IN  /\ dfa_states' = IF to = Len(dfa_states)
                            THEN Append(dfa_states, ch_closures[rule])
                            ELSE dfa_states
           /\ dfa_ref_records' =
                  Append(dfa_ref_records, [from |-> dsi, rule |-> rule, to |-> to])
           /\ ch_closures' = [c \in DOMAIN ch_closures \ {rule} |-> ch_closures[c]]
    /\ UNCHANGED <<buildVars, closureVars, pc, dsi, dfa>>

\* dsi++ and the head of the next iteration
SubsetNextState ==
    /\ pc = "subset"
    /\ DOMAIN ch_closures = {}
    /\ dsi + 1 < Len(dfa_states)
    /\ dsi' = dsi + 1
    /\ ch_closures' = ChClosures(vec, ecs, dfa_states[dsi + 2])
    /\ UNCHANGED <<buildVars, closureVars, pc, dfa_states, dfa_ref_records, dfa>>

\* the loop over dfa_states ends: build and return the DFA
Construct ==
    /\ pc = "subset"
    /\ DOMAIN ch_closures = {}
    /\ dsi + 1 = Len(dfa_states)
    /\ dfa' = [i \in 1 .. Len(dfa_states) |->
                  [is_end |-> IsEnd(dfa_states[i], nfa),
                   refs |-> DfaRefs(dfa_ref_records, i - 1)]]
    /\ pc' = "done"
    /\ UNCHANGED <<buildVars, closureVars, dfa_states, dfa_ref_records, dsi, ch_closures>>

\* the steps of a conversion that runs to its end
ConvertSteps ==
    \/ ClosureFor
    \/ ClosureWhile
    \/ ClosureReturn
    \/ SubsetBegin
    \/ SubsetEach
    \/ SubsetNextState
    \/ Construct

----------------------------------------------------------------------------
(* Running automata on an input *)

\* the DFA driven from state q over w; -1 once a transition is missing
RECURSIVE DfaRun(_, _, _)
DfaRun(d, q, w) ==
    IF w = <<>> \/ q = -1 THEN q
    ELSE LET hits == {p \in d[q + 1].refs : p[1] = Head(w)}
         IN  IF hits = {} THEN -1
             ELSE DfaRun(d, (CHOOSE p \in hits : TRUE)[2], Tail(w))

DfaAccepts(d, w) ==
    LET q == DfaRun(d, 0, w) IN q # -1 /\ d[q + 1].is_end

\* epsilon successors of NFA state i
EpsSucc(v, i) ==
    IF At(v, i).rule = RULE_EPSILON
    THEN {At(v, i).first, At(v, i).second} \ {REF_UNDEFINED}
    ELSE {}

\* every state reachable from S by zero or more epsilon transitions
RECURSIVE EpsReach(_, _)
EpsReach(v, S) ==
    LET T == S \cup UNION {EpsSucc(v, i) : i \in S}
    IN  IF T = S THEN S ELSE EpsReach(v, T)

HasEpsCycle(v) == \E i \in Indices(v) : i \in EpsReach(v, EpsSucc(v, i))

RECURSIVE NfaRun(_, _, _)
NfaRun(v, S, w) ==
    IF w = <<>> THEN S
    ELSE NfaRun(v,
                EpsReach(v, {At(v, i).first : i \in {j \in S : At(v, j).rule = Head(w)}}),
                Tail(w))

\* some path from n.start to n.end spells w
NfaAccepts(v, n, w) == n.end \in NfaRun(v, EpsReach(v, {n.start}), w)

----------------------------------------------------------------------------
(* Spec: the algebra driven over Sigma, then nfa2dfa *)

Init ==
    /\ vec = <<>>
    /\ nfa = NFASubsetRef
    /\ ret = NFASubsetRef
    /\ lastop = "none"
    /\ nops = 0
    /\ frags = {}
    /\ spent = {}
    /\ loose = 0
    /\ pc = "build"
    /\ range_s = 0
    /\ range_e = 0
    /\ range_c = 0
    /\ range_ns = NFASubsetRef
    /\ list = <<>>
    /\ base = 0
    /\ ci = 0
    /\ stack = <<>>
    /\ flag = <<>>
    /\ ecs = <<>>
    /\ dfa_states = <<>>
    /\ dfa_ref_records = <<>>
    /\ dsi = 0
    /\ ch_closures = <<>>
    /\ dfa = <<>>

\* the caller goes on building within the bounds
Room == nops < MaxOps /\ loose < MaxLoose

Next ==
    \/ \E c \in Sigma : Room /\ Ch(c)
    \/ \E lv, rv \in frags : Room /\ Link(lv, rv)
    \/ \E lv, rv \in frags : Room /\ Select(lv, rv)
    \/ \E f \in frags : Room /\ Star(f)
    \/ \E f \in frags : Room /\ Question(f)
    \/ Nfa2DfaCall
    \/ ConvertSteps
    \/ ClosureThrow
    \/ SubsetBeginUndefined

Spec == Init /\ [][Next]_vars

----------------------------------------------------------------------------
(* SpecCh: ch(c) for any char c as the only call, then nfa2dfa *)

NextCh ==
    \/ \E c \in Char : lastop = "none" /\ Ch(c)
    \/ lastop = "ch" /\ Nfa2DfaCall
    \/ ConvertSteps

SpecCh == Init /\ [][NextCh]_vars

----------------------------------------------------------------------------
(* SpecRange: an optional ch, then one range or one_of call, then nfa2dfa *)

\* the states a range call may append before the model stops following it:
\* one pass more than a range of MaxSpan + 1 members needs
RangeCap == 4 * MaxSpan + 2 + 4

OneOfLists == UNION {[1 .. k -> Sigma] : k \in 0 .. MaxSpan}

NextRange ==
    \/ \E c \in Sigma : lastop = "none" /\ Ch(c)
    \/ \E e \in Char : \E s \in (e - MaxSpan) .. (e + MaxSpan) :
          s \in Char /\ lastop \in {"none", "ch"} /\ RangeCall(s, e)
    \/ Len(vec) - base < RangeCap /\ RangeIter
    \/ RangeReturn
    \/ \E l \in OneOfLists : lastop \in {"none", "ch"} /\ OneOf(l)
    \/ lastop \in {"range", "one_of"} /\ Nfa2DfaCall
    \/ ConvertSteps
    \/ SubsetBeginUndefined

SpecRange == Init /\ [][NextRange]_vars

----------------------------------------------------------------------------
(* SpecEcs: calculate_epsilon_closures on an arbitrary state sequence *)

StateValues(n) ==
    [rule : {97, RULE_EPSILON, RULE_UNDEFINED},
     first : {REF_UNDEFINED} \cup (0 .. (n - 1)),
     second : {REF_UNDEFINED} \cup (0 .. (n - 1))]

InitEcs ==
    /\ vec \in UNION {[1 .. n -> StateValues(n)] : n \in 0 .. MaxV}
    /\ nfa = NFASubsetRef
    /\ ret = NFASubsetRef
    /\ lastop = "none"
    /\ nops = 0
    /\ frags = {}
    /\ spent = {}
    /\ loose = 0
    /\ pc = "build"
    /\ range_s = 0
    /\ range_e = 0
    /\ range_c = 0
    /\ range_ns = NFASubsetRef
    /\ list = <<>>
    /\ base = 0
    /\ ci = 0
    /\ stack = <<>>
    /\ flag = <<>>
    /\ ecs = <<>>
    /\ dfa_states = <<>>
    /\ dfa_ref_records = <<>>
    /\ dsi = 0
    /\ ch_closures = <<>>
    /\ dfa = <<>>

NextEcs ==
    \/ Nfa2DfaCall
    \/ ClosureFor
    \/ ClosureWhile
    \/ ClosureThrow
    \/ ClosureReturn

SpecEcs == InitEcs /\ [][NextEcs]_vars

\* the computation is one sequential call: it keeps running until it returns or throws
SpecEcsFair == SpecEcs /\ WF_vars(NextEcs)

----------------------------------------------------------------------------
(* Properties *)

\* C1: whenever nfa2dfa returns a DFA for an automaton built by the algebra,
\* the DFA run from state 0 ends in an accepting state exactly on the strings
\* (up to MaxLen) that some path from the tracked start to the tracked end spells.
C1_DfaAcceptsWhatNfaAccepts ==
    pc = "done" =>
        \A w \in Strs : DfaAccepts(dfa, w) <=> NfaAccepts(vec, nfa, w)

\* a DFA was returned that accepts a string of full length and rejects another,
\* for an automaton in which a fragment was used twice
C1_Witness ==
    /\ pc = "done"
    /\ ~wf
    /\ \E w \in Strs : Len(w) = MaxLen /\ DfaAccepts(dfa, w)
    /\ \E w \in Strs : ~DfaAccepts(dfa, w)

\* the language the expression of the tracked fragment denotes
RootLangs == {f.lang : f \in {g \in frags : FragRef(g) = nfa}}

\* C2: for an expression tree in which every fragment is consumed at most once
\* and the root is the last call, a returned DFA accepts exactly the language
\* the expression denotes (concat = product, alternate = union, star = closure,
\* optional = union with the empty string).
C2_DfaAcceptsDenotedLanguage ==
    (pc = "done" /\ wf) =>
        /\ Cardinality(RootLangs) = 1
        /\ \A L \in RootLangs : \A w \in Strs : DfaAccepts(dfa, w) <=> w \in L

\* star over a tree was converted, and the DFA accepts "" and "aa"
C2_Witness ==
    /\ pc = "done"
    /\ wf
    /\ lastop = "star"
    /\ DfaAccepts(dfa, <<>>)
    /\ DfaAccepts(dfa, <<97, 97>>)

\* C3: right after ch(c), for every char c, the DFA accepts the one-character
\* input c, rejects the empty input and rejects every other single character.
C3_ChAcceptsExactlyC ==
    (pc = "done" /\ lastop = "ch" /\ nops = 1) =>
        LET c == At(vec, 0).rule
        IN  /\ DfaAccepts(dfa, <<c>>)
            /\ ~DfaAccepts(dfa, <<>>)
            /\ \A d \in Char \ {c} : ~DfaAccepts(dfa, <<d>>)

\* C4: for automata built with every fragment consumed at most once, the
\* epsilon-cycle error is never raised.
C4_WellFormedNeverThrows == wf => pc # "thrown"

\* C5: on a state sequence with a cycle of epsilon transitions the computation
\* raises the error after finitely many steps: the stack never holds more than
\* Len(vec) + 1 entries, the call never returns normally, and it ends thrown.
C5_EpsilonCycleRaises ==
    /\ [](Len(stack) <= Len(vec) + 1)
    /\ [](HasEpsCycle(vec) => pc # "closed")
    /\ [](HasEpsCycle(vec) => <>(pc = "thrown"))

\* the error was raised with the stack one entry above the number of states
C5_Witness ==
    /\ pc = "thrown"
    /\ HasEpsCycle(vec)
    /\ Len(stack) = Len(vec) + 1

\* the last call was range with lo > hi or one_of on an empty list
EmptyCall ==
    \/ lastop = "range" /\ range_s > range_e
    \/ lastop = "one_of" /\ list = <<>>

\* C6: range(lo, hi) with lo > hi and one_of("") return the sentinel fragment
\* and append no state, and nfa2dfa right after such a call returns a DFA that
\* accepts no input, the empty string included.
C6_EmptyFragmentRejectsAll ==
    EmptyCall =>
        /\ ret = NFASubsetRef
        /\ Len(vec) = base
        /\ pc = "done" => \A w \in Strs : ~DfaAccepts(dfa, w)

\* C7: range(lo, hi) with lo <= hi terminates having appended exactly
\* 4 * (hi - lo) + 2 states and returns a fragment that is not the sentinel:
\* it never appends more than that, and has appended exactly that on return.
C7_RangeAppendsAndReturns ==
    (lastop = "range" /\ range_s <= range_e) =>
        /\ Len(vec) - base <= 4 * (range_e - range_s) + 2
        /\ pc # "range" =>
              /\ Len(vec) - base = 4 * (range_e - range_s) + 2
              /\ ret # NFASubsetRef

\* C8: at every step of subset construction the member sets of the discovered
\* DFA states are pairwise distinct, and every recorded transition points at the
\* state whose member set is the candidate it was looked up with.
C8_DfaStatesDistinct ==
    pc \in {"subset", "done"} =>
        /\ \A i, j \in 1 .. Len(dfa_states) :
              dfa_states[i] = dfa_states[j] => i = j
        /\ \A k \in 1 .. Len(dfa_ref_records) :
              LET rec == dfa_ref_records[k]
              IN  /\ rec.to \in 0 .. (Len(dfa_states) - 1)
                  /\ dfa_states[rec.to + 1] =
                        ChClosures(vec, ecs, dfa_states[rec.from + 1])[rec.rule]

\* a candidate equal to an already discovered state was mapped to it
C8_Witness ==
    /\ pc = "done"
    /\ \E k \in 1 .. Len(dfa_ref_records) :
          dfa_ref_records[k].to <= dfa_ref_records[k].from

\* C9: in the returned DFA, state D has a transition on c exactly when a member
\* of D has rule c; then it has exactly one, to a valid index, whose member set
\* is the union of the epsilon closures of refs.first of the members with rule c.
C9_TransitionsMatchMembers ==
    pc = "done" =>
        \A D \in 1 .. Len(dfa) : \A c \in Sigma :
            LET hits == {p \in dfa[D].refs : p[1] = c}
                movers == {m \in dfa_states[D] : At(vec, m).rule = c}
            IN  /\ (hits # {}) <=> (movers # {})
                /\ Cardinality(hits) <= 1
                /\ \A p \in dfa[D].refs :
                      /\ p[1] \in Sigma
                      /\ p[2] \in 0 .. (Len(dfa) - 1)
                /\ \A p \in hits :
                      dfa_states[p[2] + 1] =
                          UNION {EpsReach(vec, {At(vec, m).first}) : m \in movers}

\* a returned DFA has a state with transitions on two symbols
C9_Witness ==
    /\ pc = "done"
    /\ \E D \in 1 .. Len(dfa) : Cardinality(dfa[D].refs) >= 2

====
